---- MODULE Spec2Model ----
(***************************************************************************)
(* Omniscientrix Genesis - The Second Becoming Law (vOmega_B2).            *)
(*                                                                         *)
(* A model of src/omniscientrix_genesis_second_becoming.py: the function   *)
(* kl_divergence and the loop of second_becoming_dynamics.                 *)
(*                                                                         *)
(* Numbers.  The script computes in binary64.  The model computes in a     *)
(* binary floating-point format of the same shape with a short             *)
(* significand: a number is an integer count of units of 1/ONE, and every  *)
(* arithmetic result is rounded to 9 significant bits (Fl), to              *)
(* nearest.  Numbers below MantLimit units are kept exactly, as the        *)
(* gradual-underflow range of the format.  The clamp floor of the script,  *)
(* 1e-15, is about 4.5 units in the last place of 1.0 in binary64; FLOOR   *)
(* keeps that relation: it is 4 units in the last place of ONE.  NaN is    *)
(* the quiet NaN: it propagates through every operation and every          *)
(* comparison with it is false.                                            *)
(***************************************************************************)
EXTENDS Integers, Sequences, FiniteSets

\* ------------------------------------------------------------------ bounds
\* dim ranges over 1..MaxDim, steps over 0..MaxSteps, seed over 0..MaxSeed;
\* the generator's outputs are the RawLevels multiples of 1/RawLevels in [0, 1)
MaxDim == 2
MaxSteps == 8
MaxSeed == 80
RawLevels == 3
\* the iteration budget within which the convergence scenario is checked
ScenarioBudget == 8

\* --------------------------------------------------------- number format
\* 2^9: numbers from MantLimit up carry 9 significant bits
MantLimit == 512
\* the float 1.0, in units
ONE == 8192
\* the clamp floor 1e-15, in units: 4 units in the last place of ONE
FLOOR == 128
\* the NaN of the format; no number of the model has this value
NaN == -1000000000
\* logarithms are computed in units of 1/LnOne; Ln2 is ln 2 in these units
LnOne == 32768
Ln2 == 22713

\* the defaults of second_becoming_dynamics, kappa1=0.12, kappa2=0.03 and
\* tol=0.01, in units of 1/ONE and rounded to the format
Kappa1Default == 984
Kappa2Default == 246
TolDefault == 82

IsNaN(x) == x = NaN

Abs(x) == IF x < 0 THEN -x ELSE x

\* a / b for b > 0, rounded to nearest (ties away from zero)
RoundDiv(a, b) ==
    IF a >= 0 THEN (a + b \div 2) \div b
    ELSE -(((-a) + b \div 2) \div b)

RECURSIVE Quantum(_)
\* the spacing of representable numbers at magnitude m
Quantum(m) == IF m < MantLimit THEN 1 ELSE 2 * Quantum(m \div 2)

\* rounding of an exact result to the format
Fl(x) ==
    IF IsNaN(x) THEN NaN
    ELSE LET q == Quantum(Abs(x)) IN RoundDiv(x, q) * q

FAdd(a, b) == IF IsNaN(a) \/ IsNaN(b) THEN NaN ELSE Fl(a + b)
FSub(a, b) == IF IsNaN(a) \/ IsNaN(b) THEN NaN ELSE Fl(a - b)
FMul(a, b) == IF IsNaN(a) \/ IsNaN(b) THEN NaN ELSE Fl(RoundDiv(a * b, ONE))
\* x / 0 is reached only as 0 / 0 (a sum of non-negative entries is 0 only
\* when every entry is 0), which is NaN
FDiv(a, b) ==
    IF IsNaN(a) \/ IsNaN(b) \/ b = 0 THEN NaN
    ELSE IF b > 0 THEN Fl(RoundDiv(a * ONE, b))
    ELSE Fl(RoundDiv((-a) * ONE, -b))

\* a < b of the script: false when either side is NaN
FLess(a, b) == ~IsNaN(a) /\ ~IsNaN(b) /\ a < b

\* np.clip(x, lo, hi) on one entry; NaN stays NaN
Clip(x, lo, hi) ==
    IF IsNaN(x) THEN NaN
    ELSE IF x < lo THEN lo
    ELSE IF x > hi THEN hi
    ELSE x

\* np.clip(x, lo, None) on one entry
ClipLow(x, lo) == IF IsNaN(x) THEN NaN ELSE IF x < lo THEN lo ELSE x

\* 2 * atanh(z) for 0 <= z <= 1/3, in units of 1/LnOne, by its series
LnSeries(z) ==
    LET z2 == (z * z) \div LnOne
        z3 == (z * z2) \div LnOne
        z5 == (z3 * z2) \div LnOne
        z7 == (z5 * z2) \div LnOne
    IN  2 * (z + z3 \div 3 + z5 \div 5 + z7 \div 7)

RECURSIVE LnRatio(_, _)
\* ln(p / q) for p, q > 0, in units of 1/LnOne
LnRatio(p, q) ==
    IF p < q THEN -LnRatio(q, p)
    ELSE IF p >= 2 * q THEN Ln2 + LnRatio(p, 2 * q)
    ELSE LnSeries(((p - q) * LnOne) \div (p + q))

\* np.log(p / q) on one entry
FLogRatio(p, q) ==
    IF IsNaN(p) \/ IsNaN(q) THEN NaN
    ELSE Fl(RoundDiv(LnRatio(p, q), LnOne \div ONE))

RECURSIVE SumFrom(_, _, _)
SumFrom(v, i, acc) ==
    IF i > Len(v) THEN acc ELSE SumFrom(v, i + 1, FAdd(acc, v[i]))

\* np.sum(v): the entries added in order, each partial sum rounded
FSum(v) == SumFrom(v, 1, 0)

\* kl_divergence(p, q)
kl_divergence(p, q) ==
    LET pc1 == [i \in 1..Len(p) |-> Clip(p[i], FLOOR, ONE)]
        qc1 == [i \in 1..Len(q) |-> Clip(q[i], FLOOR, ONE)]
    IN  FSum([i \in 1..Len(p) |-> FMul(pc1[i], FLogRatio(pc1[i], qc1[i]))])

\* v /= v.sum()
Normalize(v) == LET s == FSum(v) IN [i \in 1..Len(v) |-> FDiv(v[i], s)]

VARIABLES dim, kappa1, kappa2, steps, tol, seed,
          rng, P, Q, Q_star, history_J1, history_J2, t,
          pc, out, trace, prev

config == <<dim, kappa1, kappa2, steps, tol, seed>>
vars == <<dim, kappa1, kappa2, steps, tol, seed,
          rng, P, Q, Q_star, history_J1, history_J2, t,
          pc, out, trace, prev>>

\* the rate 0.5
KappaHalf == ONE \div 2
\* the smallest positive number of the format: a rate in (0, 1) far below
\* half a unit in the last place of 1.0
KappaTiny == Quantum(0)

\* the (kappa1, kappa2) pairs the runs are started with: no relaxation, the
\* smallest rates, the defaults, and 0.5
KappaPairs ==
    { <<0, 0>>, <<KappaTiny, KappaTiny>>,
      <<Kappa1Default, Kappa2Default>>, <<KappaHalf, KappaHalf>> }

RECURSIVE Pow(_, _)
Pow(b, n) == IF n = 0 THEN 1 ELSE b * Pow(b, n - 1)

\* The i-th output (i = 0, 1, ...) of the bit generator seeded with sd, as a
\* float in [0, 1): a multiple of 1/RawLevels.  The stream of a seed is the
\* sequence of its digits (digit d is the output (d + 1) mod RawLevels, over
\* RawLevels), so that every stream prefix belongs to some seed.
Draw(sd, i) ==
    LET digit == (sd \div Pow(RawLevels, i)) % RawLevels
    IN  Fl(RoundDiv(((digit + 1) % RawLevels) * ONE, RawLevels))

\* default_rng with the generator's position kept from the call before
default_rng_shared(sd, old) == [seed |-> sd, pos |-> old.pos]

\* np.random.default_rng(seed): a new generator, at the start of the stream
default_rng(sd, old) == [seed |-> sd, pos |-> 0]

\* rng.random(n): the next n outputs
Random(g, n) == [i \in 1..n |-> Draw(g.seed, g.pos + i - 1)]
Advance(g, n) == [g EXCEPT !.pos = @ + n]

\* np.ones(dim) / dim
Uniform(n) == [i \in 1..n |-> FDiv(ONE, n * ONE)]

\* RelaxStep with the two vectors exchanged: target - kappa * (target - V)
RelaxStepSwapped(V, target, kappa) ==
    LET moved == [i \in 1..Len(V) |->
                    FSub(target[i], FMul(kappa, FSub(target[i], V[i])))]
    IN  Normalize([i \in 1..Len(V) |-> ClipLow(moved[i], FLOOR)])

\* RelaxStep without the clamp
RelaxStepNoClamp(V, target, kappa) ==
    Normalize([i \in 1..Len(V) |->
                 FSub(V[i], FMul(kappa, FSub(V[i], target[i])))])

\* RelaxStep with the sign of the step reversed: V + kappa * (V - target)
RelaxStepAway(V, target, kappa) ==
    LET moved == [i \in 1..Len(V) |->
                    FAdd(V[i], FMul(kappa, FSub(V[i], target[i])))]
    IN  Normalize([i \in 1..Len(V) |-> ClipLow(moved[i], FLOOR)])

\* V - kappa * (V - target); np.clip(., 1e-15, None); V /= V.sum()
RelaxStep(V, target, kappa) ==
    LET moved == [i \in 1..Len(V) |->
                    FSub(V[i], FMul(kappa, FSub(V[i], target[i])))]
    IN  Normalize([i \in 1..Len(V) |-> ClipLow(moved[i], FLOOR)])

\* the convergence check with "or" for "and"
ConvergedEither(J1, J2, tl) == FLess(J1, tl) \/ FLess(J2, tl)

\* J1 < tol and J2 < tol
Converged(J1, J2, tl) == FLess(J1, tl) /\ FLess(J2, tl)

\* the loop bound taken inclusively
LoopRunsInclusive == t <= steps

\* for t in range(steps): another iteration is due
LoopRuns == t < steps

NoPrev == [valid |-> FALSE, J1 |-> <<>>, J2 |-> <<>>, trace |-> <<>>,
           pc |-> "entry", out |-> <<>>]

Init ==
    /\ dim \in 1..MaxDim
    /\ \E k \in KappaPairs : kappa1 = k[1] /\ kappa2 = k[2]
    /\ steps \in 0..MaxSteps
    /\ tol = TolDefault
    /\ seed \in 0..MaxSeed
    /\ rng = [seed |-> 0, pos |-> 0]
    /\ P = <<>> /\ Q = <<>> /\ Q_star = <<>>
    /\ history_J1 = <<>> /\ history_J2 = <<>>
    /\ t = 0
    /\ pc = "entry"
    /\ out = <<>>
    /\ trace = <<>>
    /\ prev = NoPrev

\* lines 41-55: the generator, the three distributions, the empty logs
Setup ==
    /\ pc = "entry"
    /\ LET g == default_rng(seed, rng) IN
         /\ P' = Normalize(Random(g, dim))
         /\ Q' = Normalize(Random(Advance(g, dim), dim))
         /\ rng' = Advance(g, 2 * dim)
    /\ Q_star' = Uniform(dim)
    /\ history_J1' = <<>> /\ history_J2' = <<>>
    /\ t' = 0
    /\ pc' = "loop"
    /\ UNCHANGED <<config, out, trace, prev>>

\* Converge with the updates applied before the check: update-then-check
ConvergeAfterUpdate ==
    /\ pc = "loop" /\ t < steps
    /\ LET J1 == kl_divergence(P, Q)
           J2 == kl_divergence(Q, Q_star)
       IN  /\ FLess(J1, tol) /\ FLess(J2, tol)
           /\ history_J1' = Append(history_J1, J1)
           /\ history_J2' = Append(history_J2, J2)
    /\ trace' = Append(trace, <<P, Q>>)
    /\ P' = RelaxStep(P, Q, kappa1)
    /\ Q' = RelaxStep(Q, Q_star, kappa2)
    /\ out' = Append(out, "SUCCESS")
    /\ pc' = "returned"
    /\ UNCHANGED <<dim, kappa1, kappa2, steps, tol, seed, rng, Q_star, t, prev>>

\* lines 57-71: an iteration that finds both divergences below tol
Converge ==
    /\ pc = "loop" /\ LoopRuns
    /\ LET J1 == kl_divergence(P, Q)
           J2 == kl_divergence(Q, Q_star)
       IN  /\ Converged(J1, J2, tol)
           /\ history_J1' = Append(history_J1, J1)
           /\ history_J2' = Append(history_J2, J2)
    /\ trace' = Append(trace, <<P, Q>>)
    /\ out' = Append(out, "SUCCESS")
    /\ pc' = "returned"
    /\ UNCHANGED <<config, rng, P, Q, Q_star, t, prev>>

\* Relax with Q updated first and P relaxed toward the new Q
RelaxQFirst ==
    /\ pc = "loop" /\ t < steps
    /\ LET J1 == kl_divergence(P, Q)
           J2 == kl_divergence(Q, Q_star)
       IN  /\ ~(FLess(J1, tol) /\ FLess(J2, tol))
           /\ history_J1' = Append(history_J1, J1)
           /\ history_J2' = Append(history_J2, J2)
    /\ trace' = Append(trace, <<P, Q>>)
    /\ Q' = RelaxStep(Q, Q_star, kappa2)
    /\ P' = RelaxStep(P, Q', kappa1)
    /\ t' = t + 1
    /\ UNCHANGED <<dim, kappa1, kappa2, steps, tol, seed, rng, Q_star, pc, out, prev>>

\* Relax with the second update assigned to Q_star instead of Q
RelaxMovesTarget ==
    /\ pc = "loop" /\ t < steps
    /\ LET J1 == kl_divergence(P, Q)
           J2 == kl_divergence(Q, Q_star)
       IN  /\ ~(FLess(J1, tol) /\ FLess(J2, tol))
           /\ history_J1' = Append(history_J1, J1)
           /\ history_J2' = Append(history_J2, J2)
    /\ trace' = Append(trace, <<P, Q>>)
    /\ P' = RelaxStep(P, Q, kappa1)
    /\ Q_star' = RelaxStep(Q, Q_star, kappa2)
    /\ t' = t + 1
    /\ UNCHANGED <<dim, kappa1, kappa2, steps, tol, seed, rng, Q, pc, out, prev>>

\* lines 57-81: an iteration that does not, and relaxes P and then Q
Relax ==
    /\ pc = "loop" /\ LoopRuns
    /\ LET J1 == kl_divergence(P, Q)
           J2 == kl_divergence(Q, Q_star)
       IN  /\ ~Converged(J1, J2, tol)
           /\ history_J1' = Append(history_J1, J1)
           /\ history_J2' = Append(history_J2, J2)
    /\ trace' = Append(trace, <<P, Q>>)
    /\ P' = RelaxStep(P, Q, kappa1)
    /\ Q' = RelaxStep(Q, Q_star, kappa2)
    /\ t' = t + 1
    /\ UNCHANGED <<config, rng, Q_star, pc, out, prev>>

\* lines 83-86: the loop is over; history_J1[-1] of an empty log raises
\* IndexError after the warning was printed
Exhaust ==
    /\ pc = "loop" /\ ~LoopRuns
    /\ out' = Append(out, "WARNING")
    /\ pc' = IF Len(history_J1) = 0 THEN "raised" ELSE "returned"
    /\ UNCHANGED <<config, rng, P, Q, Q_star, history_J1, history_J2, t,
                   trace, prev>>

\* the caller calls second_becoming_dynamics again with the same arguments
CallAgain ==
    /\ pc \in {"returned", "raised"}
    /\ prev' = [valid |-> TRUE, J1 |-> history_J1, J2 |-> history_J2,
                trace |-> trace, pc |-> pc, out |-> out]
    /\ P' = <<>> /\ Q' = <<>> /\ Q_star' = <<>>
    /\ history_J1' = <<>> /\ history_J2' = <<>>
    /\ t' = 0
    /\ out' = <<>>
    /\ trace' = <<>>
    /\ pc' = "entry"
    /\ UNCHANGED <<config, rng>>

Next == Setup \/ Converge \/ Relax \/ Exhaust \/ CallAgain

Spec == Init /\ [][Next]_vars

\* ------------------------------------------------------------ the claims

Terminated == pc \in {"returned", "raised"}
Printed(m) == \E i \in 1..Len(out) : out[i] = m
AnyNaN(V) == \E i \in 1..Len(V) : IsNaN(V[i])
Last(s) == s[Len(s)]
RatesInside == 0 < kappa1 /\ kappa1 < ONE /\ 0 < kappa2 /\ kappa2 < ONE

\* C1: a call that returns has both logs of length at most steps, and a
\* call that has ended printed exactly one of the two termination messages;
\* a call still in its loop has printed neither.
C1_LengthAndOneMessage ==
    /\ Len(history_J1) <= steps /\ Len(history_J2) <= steps
    /\ Terminated =>
         /\ Len(out) = 1
         /\ Printed("SUCCESS") # Printed("WARNING")
    /\ pc = "loop" => out = <<>>

\* a call that used its whole budget: the logs are as long as steps allows
C1_Witness ==
    /\ pc = "returned" /\ steps >= 2
    /\ Printed("WARNING") /\ Len(history_J1) = steps

\* C2: every logged pair is the divergence of the P, Q the iteration began
\* with; a call that stops on convergence in iteration t returns logs of
\* length t + 1 whose last entries are below tol and are the divergences of
\* the P, Q it still holds, which are those iteration t began with.
C2_CheckThenUpdate ==
    /\ Len(trace) = Len(history_J1) /\ Len(trace) = Len(history_J2)
    /\ \A i \in 1..Len(trace) :
         /\ history_J1[i] = kl_divergence(trace[i][1], trace[i][2])
         /\ pc # "entry" => history_J2[i] = kl_divergence(trace[i][2], Q_star)
    /\ (Terminated /\ Printed("SUCCESS")) =>
         /\ pc = "returned"
         /\ Len(history_J1) = t + 1 /\ Len(history_J2) = t + 1
         /\ FLess(Last(history_J1), tol) /\ FLess(Last(history_J2), tol)
         /\ <<P, Q>> = Last(trace)
         /\ Last(history_J1) = kl_divergence(P, Q)
         /\ Last(history_J2) = kl_divergence(Q, Q_star)

\* a call that converged in iteration 2, after two updates
C2_Witness ==
    /\ pc = "returned" /\ Printed("SUCCESS") /\ t = 2
    /\ trace[1] # trace[2] /\ trace[2] # trace[3]

\* C3: a call in which no iteration passed the convergence check returns,
\* after the warning, logs of length exactly steps, for every steps >= 0.
C3_ExhaustionReturns ==
    (Terminated /\ ~Printed("SUCCESS")) =>
        /\ pc = "returned"
        /\ out = <<"WARNING">>
        /\ Len(history_J1) = steps /\ Len(history_J2) = steps

\* the units in the last place of 1.0
Ulp1 == Quantum(ONE)

\* a vector whose entries are all at least the floor and whose sum, as
\* np.sum computes it, is exactly 1.0
ExactDist(V) ==
    /\ ~AnyNaN(V)
    /\ \A i \in 1..Len(V) : V[i] >= FLOOR
    /\ FSum(V) = ONE

ConstantLogs ==
    \A i \in 1..Len(trace) :
        /\ trace[i] = trace[1]
        /\ history_J1[i] = history_J1[1]
        /\ history_J2[i] = history_J2[1]

\* C4, as stated: with kappa1 = kappa2 = 0 no update changes P or Q, whatever
\* the initialisation drew (here: whenever it drew no NaN), so the logs are
\* constant and a call that did not converge at once has logs of length steps.
C4_NoRelaxationFreezes ==
    (/\ kappa1 = 0 /\ kappa2 = 0
     /\ Len(trace) >= 1
     /\ ~AnyNaN(trace[1][1]) /\ ~AnyNaN(trace[1][2])) =>
        /\ ConstantLogs
        /\ <<P, Q>> = trace[1]
        /\ Terminated =>
             IF Converged(history_J1[1], history_J2[1], tol)
             THEN Len(history_J1) = 1
             ELSE Len(history_J1) = steps /\ Len(history_J2) = steps

\* C4, amended: with kappa1 = kappa2 = 0 and an initial P and Q whose
\* entries are all at least the floor and whose sums are exactly 1.0, no
\* update changes P or Q, every log entry equals the first, and a call that
\* did not converge at once performs exactly steps iterations.
C4_ExactDistFreezes ==
    (/\ kappa1 = 0 /\ kappa2 = 0
     /\ Len(trace) >= 1
     /\ ExactDist(trace[1][1]) /\ ExactDist(trace[1][2])) =>
        /\ ConstantLogs
        /\ <<P, Q>> = trace[1]
        /\ Terminated =>
             IF Converged(history_J1[1], history_J2[1], tol)
             THEN Len(history_J1) = 1
             ELSE Len(history_J1) = steps /\ Len(history_J2) = steps

\* a frozen run that used a budget of at least three iterations
C4_Witness ==
    /\ kappa1 = 0 /\ kappa2 = 0
    /\ pc = "returned" /\ steps >= 3 /\ Len(history_J1) = steps
    /\ ExactDist(trace[1][1]) /\ ExactDist(trace[1][2])
    /\ trace[1][1] # trace[1][2]

\* C5: a call and the call before it, made with the same arguments, went
\* through the same (P, Q) states, ended the same way and produced the same
\* logs.
C5_Determinism ==
    (Terminated /\ prev.valid) =>
        /\ prev.trace = trace
        /\ prev.pc = pc
        /\ prev.out = out
        /\ prev.J1 = history_J1
        /\ prev.J2 = history_J2

\* a second call that ended after at least two updates of a changing state
C5_Witness ==
    /\ Terminated /\ prev.valid
    /\ Len(trace) >= 3 /\ trace[1] # trace[2]

\* a NaN vector is NaN in every entry, and is so only from the start
NaNFromStart ==
    /\ AnyNaN(P) => (AnyNaN(trace[1][1]) \/ AnyNaN(trace[1][2]))
    /\ AnyNaN(Q) => AnyNaN(trace[1][2])

\* C6, as stated: after every update with rates in (0, 1) every entry of P
\* and of Q is at least the floor and each vector sums to exactly 1 (here:
\* whenever the vectors are not NaN).
C6_FloorAndUnitSum ==
    (/\ RatesInside /\ pc # "entry" /\ t >= 1
     /\ ~AnyNaN(P) /\ ~AnyNaN(Q)) =>
        /\ \A i \in 1..dim : P[i] >= FLOOR /\ Q[i] >= FLOOR
        /\ FSum(P) = ONE /\ FSum(Q) = ONE

\* C6, amended: after every update with rates in (0, 1), a vector that is
\* not NaN has every entry positive and at least half the floor, and sums to
\* 1 within dim units in the last place; a vector is NaN only when the
\* initialisation produced NaN.
C6_PositiveAndNearUnitSum ==
    (RatesInside /\ pc # "entry" /\ t >= 1) =>
        /\ NaNFromStart
        /\ \A V \in {P, Q} :
             ~AnyNaN(V) =>
                /\ \A i \in 1..dim : V[i] > 0 /\ 2 * V[i] >= FLOOR
                /\ Abs(FSum(V) - ONE) <= dim * Ulp1

\* an update that clamped a zero entry of P
C6_Witness ==
    /\ RatesInside /\ pc = "loop" /\ t >= 1
    /\ ~AnyNaN(P) /\ ~AnyNaN(Q)
    /\ \E i \in 1..dim : trace[t][1][i] = 0 /\ trace[t][2][i] = 0

StartedNaN == AnyNaN(trace[1][1]) \/ AnyNaN(trace[1][2])

C8_QStarFixedUniform ==
    pc # "entry" =>
        /\ Len(P) = dim /\ Len(Q) = dim /\ Len(Q_star) = dim
        /\ \A i \in 1..dim :
             /\ Q_star[i] = Q_star[1]
             /\ 2 * Abs(dim * Q_star[i] - ONE) <= dim * Quantum(Q_star[i])

\* a call in which Q has moved twice while Q_star stayed
C8_Witness ==
    /\ pc = "loop" /\ t >= 2 /\ dim >= 2
    /\ ~AnyNaN(Q)
    /\ trace[1][2] # trace[2][2] /\ trace[2][2] # Q

\* C9: after an iteration's update, P is the relaxation of the old P
\* toward the Q the iteration began with, and Q is the relaxation of the
\* old Q toward Q_star.
C9_UpdateOrder ==
    (pc = "loop" /\ t >= 1) =>
        /\ P = RelaxStep(trace[t][1], trace[t][2], kappa1)
        /\ Q = RelaxStep(trace[t][2], Q_star, kappa2)

\* an update in which relaxing P toward the new Q would have given another P
C9_Witness ==
    /\ pc = "loop" /\ t >= 1
    /\ ~AnyNaN(P) /\ ~AnyNaN(Q)
    /\ RelaxStep(trace[t][1], Q, kappa1) # P

IsPrefix(a, b) == Len(a) <= Len(b) /\ \A i \in 1..Len(a) : a[i] = b[i]

C10_Logs ==
    /\ Len(history_J1) = Len(history_J2)
    /\ \A i \in 1..(Len(history_J1) - 1) :
         ~(FLess(history_J1[i], tol) /\ FLess(history_J2[i], tol))
    /\ (Terminated /\ Len(history_J1) >= 1) =>
         ((FLess(Last(history_J1), tol) /\ FLess(Last(history_J2), tol))
            <=> Printed("SUCCESS"))
    /\ (Terminated /\ Len(history_J1) < steps) =>
         (pc = "returned" /\ Printed("SUCCESS"))

\* C10: the two logs have equal length and only grow by appending during a
\* call; no entry pair before the last is below tol; the last pair is below
\* tol exactly when the call printed the success message; logs shorter than
\* steps come from a converged call.
C10_LogsAppendOnlyLastDecides ==
    [][/\ C10_Logs'
       /\ pc' # "entry" =>
            /\ IsPrefix(history_J1, history_J1')
            /\ IsPrefix(history_J2, history_J2')]_vars

\* an exhausted call of three iterations or more, and its logs
C10_Witness ==
    /\ pc = "returned" /\ Printed("WARNING") /\ Len(history_J1) >= 3
    /\ FLess(Last(history_J1), tol) /\ ~FLess(Last(history_J2), tol)

====
